---------------------------- MODULE Spec2Model ----------------------------
(***************************************************************************)
(* A model of the Telegram price bot of src/app.py: the command-argument   *)
(* parser, the two-tier price lookup, the paginated catalog listing, the   *)
(* navigation tokens of the inline keyboard and the webhook handler that   *)
(* routes updates to them.                                                 *)
(*                                                                         *)
(* Text is modelled as a sequence of one-character strings, so that the    *)
(* regular expressions, str.split, int() and str() of the source are       *)
(* computed character by character.                                        *)
(***************************************************************************)
EXTENDS Integers, Sequences, FiniteSets, TLC

(***************************************************************************)
(* Characters and text                                                     *)
(***************************************************************************)
Digits == {"0", "1", "2", "3", "4", "5", "6", "7", "8", "9"}

LowerLetters ==
    {"a", "b", "c", "d", "e", "f", "g", "h", "i", "j", "k", "l", "m",
     "n", "o", "p", "q", "r", "s", "t", "u", "v", "w", "x", "y", "z"}

\* the upper-case letters and their lower-case forms
UpperToLower ==
    ("A" :> "a") @@ ("B" :> "b") @@ ("C" :> "c") @@ ("D" :> "d") @@
    ("E" :> "e") @@ ("F" :> "f") @@ ("G" :> "g") @@ ("H" :> "h") @@
    ("I" :> "i") @@ ("J" :> "j") @@ ("K" :> "k") @@ ("L" :> "l") @@
    ("M" :> "m") @@ ("N" :> "n") @@ ("O" :> "o") @@ ("P" :> "p") @@
    ("Q" :> "q") @@ ("R" :> "r") @@ ("S" :> "s") @@ ("T" :> "t") @@
    ("U" :> "u") @@ ("V" :> "v") @@ ("W" :> "w") @@ ("X" :> "x") @@
    ("Y" :> "y") @@ ("Z" :> "z")

\* \w of the regular expressions
WordChars == Digits \cup LowerLetters \cup DOMAIN UpperToLower \cup {"_"}

\* the characters of the model's texts in byte order (the order of a sort)
Alphabet ==
    <<" ", "\"", "-", "0", "1", "2", "3", "4", "5", "6", "7", "8", "9", ":",
      "A", "B", "C", "D", "E", "F", "G", "H", "I", "J", "K", "L", "M",
      "N", "O", "P", "Q", "R", "S", "T", "U", "V", "W", "X", "Y", "Z", "_",
      "a", "b", "c", "d", "e", "f", "g", "h", "i", "j", "k", "l", "m",
      "n", "o", "p", "q", "r", "s", "t", "u", "v", "w", "x", "y", "z">>

Ord(c) == CHOOSE i \in 1..Len(Alphabet) : Alphabet[i] = c

LowerChar(c) == IF c \in DOMAIN UpperToLower THEN UpperToLower[c] ELSE c

\* str.lower() / SQL lower()
Lower(s) == [i \in 1..Len(s) |-> LowerChar(s[i])]

IsWordChar(c) == c \in WordChars

\* \s; the texts of the model hold no other white space than the space
IsSpace(c) == c = " "

\* the character at position i, "" outside the text
CharAt(s, i) == IF i \in 1..Len(s) THEN s[i] ELSE ""

Min(a, b) == IF a <= b THEN a ELSE b

Max(a, b) == IF a >= b THEN a ELSE b

\* the least element of a non-empty set of integers
Least(S) == CHOOSE x \in S : \A y \in S : x <= y

\* str.strip()
Strip(s) ==
    LET keep == {i \in 1..Len(s) : ~IsSpace(s[i])}
    IN  IF keep = {} THEN <<>>
        ELSE SubSeq(s, Least(keep), CHOOSE x \in keep : \A y \in keep : y <= x)

\* the first position at or after i whose character is not in class C
RunEnd(s, i, C) == Least({j \in i..Len(s) + 1 : CharAt(s, j) \notin C})

\* needle occurs in hay (SQL '%'||needle||'%' on texts already case-folded)
Contains(hay, needle) ==
    \E i \in 1..(Len(hay) - Len(needle) + 1) :
        SubSeq(hay, i, i + Len(needle) - 1) = needle

\* str.isdigit()
IsDigitText(s) == Len(s) > 0 /\ \A i \in 1..Len(s) : s[i] \in Digits

DigitVal(c) == Ord(c) - Ord("0")

RECURSIVE DigitsValue(_)
DigitsValue(s) ==
    IF s = <<>> THEN 0
    ELSE 10 * DigitsValue(SubSeq(s, 1, Len(s) - 1)) + DigitVal(s[Len(s)])

\* int(text): white space stripped, an optional sign, decimal digits;
\* ok = FALSE stands for the ValueError
ParseInt(s) ==
    LET t == Strip(s)
        signed == Len(t) > 0 /\ t[1] \in {"-", "+"}
        d == IF signed THEN Tail(t) ELSE t
    IN  IF IsDigitText(d)
        THEN [ok |-> TRUE,
              val |-> IF signed /\ t[1] = "-" THEN 0 - DigitsValue(d)
                      ELSE DigitsValue(d)]
        ELSE [ok |-> FALSE, val |-> 0]

RECURSIVE NatStr(_)
NatStr(n) ==
    IF n < 10 THEN <<Alphabet[Ord("0") + n]>>
    ELSE NatStr(n \div 10) \o <<Alphabet[Ord("0") + (n % 10)]>>

\* str(n) of an integer, as an f-string formats it
IntStr(n) == IF n < 0 THEN <<"-">> \o NatStr(0 - n) ELSE NatStr(n)

(***************************************************************************)
(* Regular expressions of the parser (flags=re.I).  A match is             *)
(* [ok, stop, g1, g2]: stop is the position after the match, g1..g2 the    *)
(* span of group 1.                                                        *)
(***************************************************************************)
NoMatch == [ok |-> FALSE, stop |-> 0, g1 |-> 0, g2 |-> 0]

\* \b at position i: between the characters i-1 and i
WordBoundary(s, i) == IsWordChar(CharAt(s, i - 1)) # IsWordChar(CharAt(s, i))

\* a literal keyword at position i, case-insensitively
LitAt(s, i, lit) ==
    /\ i + Len(lit) - 1 <= Len(s)
    /\ \A k \in 1..Len(lit) : LowerChar(s[i + k - 1]) = lit[k]

KwPage == <<"p", "a", "g", "e">>

KwKategori == <<"k", "a", "t", "e", "g", "o", "r", "i">>

\* page\s+(\d+)\b at position i (greedy \d+ cannot give digits back: the
\* character after a shorter run is a digit, so \b fails there)
PageTailAt(s, i) ==
    IF ~LitAt(s, i, KwPage) THEN NoMatch
    ELSE LET a == i + Len(KwPage)
             b == RunEnd(s, a, {" "})
             c == RunEnd(s, b, Digits)
         IN  IF b > a /\ c > b /\ ~IsWordChar(CharAt(s, c))
             THEN [ok |-> TRUE, stop |-> c, g1 |-> b, g2 |-> c - 1]
             ELSE NoMatch

\* r'\bpage\s+(\d+)\b'
RePageAt(s, i) == IF WordBoundary(s, i) THEN PageTailAt(s, i) ELSE NoMatch

\* the lookahead (?=\s+page\s+\d+\b|$) at position p
LookaheadAt(s, p) ==
    \/ p = Len(s) + 1
    \/ LET a == RunEnd(s, p, {" "}) IN a > p /\ PageTailAt(s, a).ok

\* r'\bkategori\s+"([^"]+)"' at position i; with closingB, the trailing \b
\* of the pattern of line 355: after the closing quote, which is no word
\* character, \b holds only before a word character
KategoriQuotedAt(s, i, closingB) ==
    IF ~(WordBoundary(s, i) /\ LitAt(s, i, KwKategori)) THEN NoMatch
    ELSE LET a == i + Len(KwKategori)
             b == RunEnd(s, a, {" "})
             c == Least({j \in (b + 1)..(Len(s) + 1) :
                            CharAt(s, j) \in {"\"", ""}})
         IN  IF /\ b > a
                /\ CharAt(s, b) = "\""
                /\ c >= b + 2
                /\ CharAt(s, c) = "\""
                /\ (closingB => IsWordChar(CharAt(s, c + 1)))
             THEN [ok |-> TRUE, stop |-> c + 1, g1 |-> b + 1, g2 |-> c - 1]
             ELSE NoMatch

\* r'\bkategori\s+(.+?)(?=\s+page\s+\d+\b|$)' at position i: \s+ is greedy,
\* .+? takes at least one character and then as few as the lookahead allows;
\* when only spaces follow the keyword, \s+ gives one back to .+?
KategoriUnquotedAt(s, i) ==
    IF ~(WordBoundary(s, i) /\ LitAt(s, i, KwKategori)) THEN NoMatch
    ELSE LET a == i + Len(KwKategori)
             b == RunEnd(s, a, {" "})
         IN  IF b = a THEN NoMatch
             ELSE IF b <= Len(s)
             THEN LET e == Least({j \in (b + 1)..(Len(s) + 1) :
                                     LookaheadAt(s, j)})
                  IN  [ok |-> TRUE, stop |-> e, g1 |-> b, g2 |-> e - 1]
             ELSE IF b - a >= 2
             THEN [ok |-> TRUE, stop |-> b, g1 |-> b - 1, g2 |-> b - 1]
             ELSE NoMatch

\* the patterns of the source, by name
ReMatchAt(pat, s, i) ==
    CASE pat = "page"              -> RePageAt(s, i)
      [] pat = "kategori_quoted"   -> KategoriQuotedAt(s, i, FALSE)
      [] pat = "kategori_quoted_b" -> KategoriQuotedAt(s, i, TRUE)
      [] pat = "kategori_unquoted" -> KategoriUnquotedAt(s, i)

\* re.search(pattern, text, flags=re.I): the leftmost match
ReSearch(pat, s) ==
    LET starts == {i \in 1..Len(s) : ReMatchAt(pat, s, i).ok}
    IN  IF starts = {} THEN NoMatch ELSE ReMatchAt(pat, s, Least(starts))

\* re.sub(pattern, '', text, flags=re.I) from position i on
RECURSIVE ReSubFrom(_, _, _)
ReSubFrom(pat, s, i) ==
    IF i > Len(s) THEN <<>>
    ELSE LET m == ReMatchAt(pat, s, i)
         IN  IF m.ok THEN ReSubFrom(pat, s, m.stop)
             ELSE <<s[i]>> \o ReSubFrom(pat, s, i + 1)

ReSub(pat, s) == ReSubFrom(pat, s, 1)

\* _extract_arg: the stripped first group of the leftmost match, or ''
_extract_arg(pat, text) ==
    LET m == ReSearch(pat, text)
    IN  IF m.ok THEN Strip(SubSeq(text, m.g1, m.g2)) ELSE <<>>

\* page = max(1, int(page_txt)) if page_txt.isdigit() else 1
PageOf(page_txt) ==
    IF IsDigitText(page_txt) THEN Max(1, ParseInt(page_txt).val) ELSE 1

\* _parse_produk_args(args) -> (q, kat, page)
_parse_produk_args(args) ==
    IF args = <<>> THEN [q |-> <<>>, kat |-> <<>>, page |-> 1]
    ELSE LET quoted == _extract_arg("kategori_quoted", args)
             kat == IF quoted # <<>> THEN quoted
                    ELSE _extract_arg("kategori_unquoted", args)
             page_txt == _extract_arg("page", args)
             q1 == ReSub("kategori_quoted_b", args)
             q2 == ReSub("kategori_unquoted", q1)
             q3 == Strip(ReSub("page", q2))
         IN  [q |-> q3, kat |-> kat, page |-> PageOf(page_txt)]


(***************************************************************************)
(* State                                                                   *)
(***************************************************************************)
VARIABLES
    ALLOWED_IDS,     \* the allow-list of Telegram ids (empty: everybody)
    WEBHOOK_SECRET,  \* the configured webhook secret ("" when unset)
    table,           \* the rows of "DataObat"
    inbox,           \* the request the handler is about to serve
    run,             \* what the handler did for the request it last served
    args,            \* SpecParse: the argument string, in pieces
    parsed           \* SpecParse: what _parse_produk_args returned

vars == <<ALLOWED_IDS, WEBHOOK_SECRET, table, inbox, run, args, parsed>>

(***************************************************************************)
(* Settings and the catalog                                                *)
(***************************************************************************)
PAGE_SIZE == 5

\* LIMIT 5 of the two lookup queries
LOOKUP_LIMIT == 5

\* the default threshold of find_prices, in hundredths
DEFAULT_THRESHOLD == 30

VACCINE_CATEGORY == <<"v", "a", "c", "c", "i", "n", "e">>

\* the largest catalog of the model
MaxRows == 12

\* a second category, holding a colon
CatColon == <<"o", "b", ":", "a", "t">>

ProductNames == << <<"V", "i", "t", "a">>, <<"v", "i", "t", ":", "b">> >>

\* the i-th row of the catalog: names repeat, (name, pack) is unique
Product(i) ==
    [id       |-> i,
     name     |-> ProductNames[(i % 2) + 1],
     pack     |-> IntStr(i) \o <<"g">>,
     category |-> IF (i \div 2) % 2 = 0 THEN VACCINE_CATEGORY ELSE CatColon,
     sku      |-> <<"S">> \o IntStr(i)]

Catalog(n) == [i \in 1..n |-> Product(i)]

(***************************************************************************)
(* The row store: the five queries over "DataObat"                         *)
(***************************************************************************)
OrdOf == [c \in {Alphabet[i] : i \in 1..Len(Alphabet)} |-> Ord(c)]

\* a <= b in byte order
RECURSIVE TextLeq(_, _)
TextLeq(a, b) ==
    IF a = <<>> THEN TRUE
    ELSE IF b = <<>> THEN FALSE
    ELSE IF a[1] = b[1] THEN TextLeq(Tail(a), Tail(b))
    ELSE OrdOf[a[1]] < OrdOf[b[1]]

\* ORDER BY two text keys
KeyLeq(k1, k2) ==
    IF k1[1] = k2[1] THEN TextLeq(k1[2], k2[2]) ELSE TextLeq(k1[1], k2[1])

RECURSIVE InsertByKey(_, _)
InsertByKey(sorted, e) ==
    IF sorted = <<>> THEN <<e>>
    ELSE IF KeyLeq(sorted[1].key, e.key) THEN <<sorted[1]>> \o InsertByKey(Tail(sorted), e)
    ELSE <<e>> \o sorted

RECURSIVE SortByKey(_)
SortByKey(s) ==
    IF s = <<>> THEN <<>>
    ELSE InsertByKey(SortByKey(SubSeq(s, 1, Len(s) - 1)), s[Len(s)])

Ids(s) == [i \in 1..Len(s) |-> s[i].id]

Take(s, n) == SubSeq(s, 1, Min(n, Len(s)))

\* text ILIKE '%'||pattern||'%'
ILike(text, pattern) == Contains(Lower(text), Lower(pattern))

\* the WHERE clause of SQL_LIST_PRODUCTS and SQL_COUNT_PRODUCTS
ListWhere(row, q, category) ==
    /\ q = <<>> \/ ILike(Lower(row.name), Lower(q))
    /\ category = <<>> \/ Lower(row.category) = Lower(category)

\* the rows of the listing in ORDER BY lower("nama"), "kemasan"
ListMatches(q, category) ==
    LET hit == SelectSeq(table, LAMBDA r : ListWhere(r, q, category))
    IN  Ids(SortByKey([i \in 1..Len(hit) |->
            [id |-> hit[i].id, key |-> <<Lower(hit[i].name), hit[i].pack>>]]))

\* SQL_COUNT_PRODUCTS
SqlCountProducts(q, category) ==
    Len(SelectSeq(table, LAMBDA r : ListWhere(r, q, category)))

\* SQL_LIST_PRODUCTS: LIMIT $3 OFFSET $4 of the ordered matches
SqlListProducts(q, category, limit, offset) ==
    LET m == ListMatches(q, category)
    IN  SubSeq(m, offset + 1, Min(offset + limit, Len(m)))

\* SQL_PRODUCT_DETAIL
SqlProductDetail(pid) == Ids(SelectSeq(table, LAMBDA r : r.id = pid))

\* the pack filter of the two lookup queries
PackWhere(row, qpack) == qpack = <<>> \/ ILike(row.pack, qpack)

\* SQL_LOOKUP_SUBSTRING
SqlLookupSubstring(qname, qpack) ==
    LET hit == SelectSeq(table, LAMBDA r :
                   /\ ILike(r.name, qname) \/ ILike(r.sku, qname)
                   /\ PackWhere(r, qpack))
    IN  Take(Ids(SortByKey([i \in 1..Len(hit) |->
            [id |-> hit[i].id, key |-> <<hit[i].name, hit[i].pack>>]])),
            LOOKUP_LIMIT)

\* SQL_LOOKUP_FUZZY.  similarity() belongs to the pg_trgm extension of the
\* store: ranked is the store's ranking (similarity desc, name) of the rows
\* at or over the threshold, chosen by the environment
SqlLookupFuzzy(ranked, qpack) ==
    Take(SelectSeq(ranked, LAMBDA i :
             i \in 1..Len(table) /\ PackWhere(table[i], qpack)),
         LOOKUP_LIMIT)


(***************************************************************************)
(* One request.  The handler is sequential code that awaits the row store  *)
(* and the Telegram API; r is the record of what it has done so far:       *)
(*   core  the core operations invoked, db  the queries issued,            *)
(*   tg    the Telegram API calls made, exc  the exception propagating     *)
(*   ("" when none).                                                       *)
(* env is what the environment does to this request: the queries that      *)
(* raise (an error or a timeout), the Telegram calls that raise, by their  *)
(* order, and the ranking the similarity query returns.                    *)
(***************************************************************************)
EmptyRun == [core |-> <<>>, db |-> <<>>, tg |-> <<>>, exc |-> ""]

Caught(r) == [r EXCEPT !.exc = ""]

Raise(r, e) == [r EXCEPT !.exc = e]

Invoke(r, fn, q, filt, n) ==
    [r EXCEPT !.core = Append(@, [fn |-> fn, q |-> q, filt |-> filt, n |-> n])]

DbCall(sql, q, filt) ==
    [sql |-> sql, q |-> q, filt |-> filt, thr |-> 0, limit |-> 0, offset |-> 0,
     pid |-> 0]

\* the store rejects the query: an injected failure, or a negative LIMIT or
\* OFFSET, which PostgreSQL refuses
DbRaises(env, call) ==
    \/ call.sql \in env.dbFail
    \/ call.sql = "LIST_PRODUCTS" /\ (call.offset < 0 \/ call.limit < 0)

DbRows(env, call) ==
    CASE call.sql = "LOOKUP_FUZZY"     -> SqlLookupFuzzy(env.ranked, call.filt)
      [] call.sql = "LOOKUP_SUBSTRING" -> SqlLookupSubstring(call.q, call.filt)
      [] call.sql = "COUNT_PRODUCTS"   -> <<SqlCountProducts(call.q, call.filt)>>
      [] call.sql = "LIST_PRODUCTS"    ->
             SqlListProducts(call.q, call.filt, call.limit, call.offset)
      [] call.sql = "PRODUCT_DETAIL"   -> SqlProductDetail(call.pid)

\* db_fetch: the rows of the query, or its exception (r.db records the
\* query, how it ended and the rows it returned)
db_fetch(r, env, call) ==
    IF DbRaises(env, call)
    THEN [r    |-> [r EXCEPT !.db = Append(@, [call |-> call, out |-> "raise",
                                                   rows |-> <<>>]),
                             !.exc = call.sql],
          rows |-> <<>>]
    ELSE [r    |-> [r EXCEPT !.db = Append(@, [call |-> call, out |-> "ok",
                                                   rows |-> DbRows(env, call)])],
          rows |-> DbRows(env, call)]

(***************************************************************************)
(* The notifier                                                            *)
(***************************************************************************)
Msg(kind) ==
    [kind |-> kind, q |-> <<>>, category |-> <<>>, start |-> 0, rows |-> <<>>,
     page |-> 0, last_page |-> 0, buttons |-> <<>>]

\* _tg: the POST either answers (an "ok": false answer is only printed) or
\* raises a transport error
_tg(r, env, method, chat, msg) ==
    [r EXCEPT !.tg = Append(@, [method |-> method, chat |-> chat, msg |-> msg,
                                out |-> IF Len(r.tg) + 1 \in env.tgFail
                                        THEN "raise" ELSE "ok"]),
              !.exc = IF Len(r.tg) + 1 \in env.tgFail THEN "notifier" ELSE @]

send(r, env, chat_id, msg) == _tg(r, env, "sendMessage", chat_id, msg)

send_with_keyboard(r, env, chat_id, msg) == _tg(r, env, "sendMessage", chat_id, msg)

edit_message_text(r, env, chat_id, msg) == _tg(r, env, "editMessageText", chat_id, msg)

answer_callback(r, env) == _tg(r, env, "answerCallbackQuery", 0, Msg("answer"))

(***************************************************************************)
(* Data access helpers                                                     *)
(***************************************************************************)
\* find_prices that runs the substring query whatever Tier 1 returned
FindAfterFuzzy_AlwaysFallsBack(t1, env, name, pack) ==
    db_fetch(Caught(t1.r), env, DbCall("LOOKUP_SUBSTRING", name, pack))

\* find_prices without the try around Tier 1
FindAfterFuzzy_Propagates(t1, env, name, pack) ==
    IF t1.r.exc # "" \/ t1.rows # <<>> THEN t1
    ELSE db_fetch(t1.r, env, DbCall("LOOKUP_SUBSTRING", name, pack))

\* lines 205-210: a Tier 1 exception is swallowed; without Tier 1 rows the
\* substring query runs, outside the try
FindAfterFuzzy(t1, env, name, pack) ==
    IF t1.r.exc = "" /\ t1.rows # <<>> THEN t1
    ELSE db_fetch(Caught(t1.r), env, DbCall("LOOKUP_SUBSTRING", name, pack))

\* find_prices(qname, qpack, threshold) -> [r, rows]; r.exc is its exception
find_prices(r, env, qname, qpack, threshold) ==
    FindAfterFuzzy(
        db_fetch(Invoke(r, "find_prices", qname, qpack, threshold), env,
                 [DbCall("LOOKUP_FUZZY", Strip(qname), Strip(qpack))
                      EXCEPT !.thr = threshold]),
        env, Strip(qname), Strip(qpack))

\* lines 217-220: (total, rows), or (0, []) when the listing query raised
ListResult(c, l) ==
    IF l.r.exc # "" THEN [r |-> Caught(l.r), total |-> 0, rows |-> <<>>]
    ELSE [r |-> l.r, total |-> c.rows[1], rows |-> l.rows]

\* list_products with offset = page * page_size
ListAfterCount_OffsetOfNextPage(c, env, q, category, page, page_size) ==
    IF c.r.exc # "" THEN [r |-> Caught(c.r), total |-> 0, rows |-> <<>>]
    ELSE ListResult(c, db_fetch(c.r, env,
             [DbCall("LIST_PRODUCTS", q, category)
                  EXCEPT !.limit = page_size, !.offset = page * page_size]))

\* lines 215-216, and 218-220 when the count query raised
ListAfterCount(c, env, q, category, page, page_size) ==
    IF c.r.exc # "" THEN [r |-> Caught(c.r), total |-> 0, rows |-> <<>>]
    ELSE ListResult(c, db_fetch(c.r, env,
             [DbCall("LIST_PRODUCTS", q, category)
                  EXCEPT !.limit = page_size, !.offset = (page - 1) * page_size]))

\* list_products(q, category, page, page_size) -> (total, rows)
list_products(r, env, q, category, page, page_size) ==
    ListAfterCount(
        db_fetch(Invoke(r, "list_products", q, category, page), env,
                 DbCall("COUNT_PRODUCTS", q, category)),
        env, q, category, page, page_size)

(***************************************************************************)
(* Catalog and detail senders                                              *)
(***************************************************************************)
TokPage == <<"p", "a", "g", "e", ":">>

TokProduct == <<"p", "r", "o", "d", "u", "c", "t", ":">>

TokNoop == <<"n", "o", "o", "p">>

\* f"page:{page}:{q}:{category}"
NavToken(page, q, category) ==
    TokPage \o IntStr(page) \o <<":">> \o q \o <<":">> \o category

\* f"product:{r['id']}"
ProductToken(id) == TokProduct \o IntStr(id)

\* last_page = max(1, (total + PAGE_SIZE - 1) // PAGE_SIZE)
LastPage(total) == Max(1, (total + PAGE_SIZE - 1) \div PAGE_SIZE)

\* a navigation row whose Next button is still there on the last page
NavButtons_NextOnLastPage(page, last_page, q, category) ==
    (IF page > 1
     THEN <<[text |-> "Prev", data |-> NavToken(page - 1, q, category)]>>
     ELSE <<>>)
    \o <<[text |-> "Label", data |-> TokNoop]>>
    \o (IF page <= last_page
        THEN <<[text |-> "Next", data |-> NavToken(page + 1, q, category)]>>
        ELSE <<>>)

\* the navigation row: Prev, the page label, Next
NavButtons(page, last_page, q, category) ==
    (IF page > 1
     THEN <<[text |-> "Prev", data |-> NavToken(page - 1, q, category)]>>
     ELSE <<>>)
    \o <<[text |-> "Label", data |-> TokNoop]>>
    \o (IF page < last_page
        THEN <<[text |-> "Next", data |-> NavToken(page + 1, q, category)]>>
        ELSE <<>>)

\* the reply of a non-empty listing: the numbered lines (start, rows), the
\* header (q, category), a Detail button per row and the navigation row
CatalogMessage(total, rows, q, category, page) ==
    [kind      |-> "list",
     q         |-> q,
     category  |-> category,
     start     |-> (page - 1) * PAGE_SIZE + 1,
     rows      |-> rows,
     page      |-> page,
     last_page |-> LastPage(total),
     buttons   |-> [i \in 1..Len(rows) |->
                        [text |-> "Detail", data |-> ProductToken(rows[i])]]
                   \o NavButtons(page, LastPage(total), q, category)]

\* lines 227-253: the reply of send_catalog to the listing lp
CatalogReply(lp, env, chat_id, q, category, page) ==
    IF lp.rows = <<>>
    THEN send(lp.r, env, chat_id, [Msg("no_results") EXCEPT !.category = category])
    ELSE send_with_keyboard(lp.r, env, chat_id,
             CatalogMessage(lp.total, lp.rows, q, category, page))

\* send_catalog(chat_id, q, category, page)
send_catalog(r, env, chat_id, q, category, page) ==
    CatalogReply(list_products(r, env, q, category, page, PAGE_SIZE),
                 env, chat_id, q, category, page)

\* lines 259-281: the edit of edit_message_with_catalog for the listing lp
CatalogEdit(lp, env, chat_id, q, category, page) ==
    IF lp.rows = <<>>
    THEN edit_message_text(lp.r, env, chat_id, Msg("no_results"))
    ELSE edit_message_text(lp.r, env, chat_id,
             CatalogMessage(lp.total, lp.rows, q, category, page))

\* edit_message_with_catalog(cb, page, q, category)
edit_message_with_catalog(r, env, chat_id, page, q, category) ==
    CatalogEdit(list_products(r, env, q, category, page, PAGE_SIZE),
                env, chat_id, q, category, page)

\* lines 286-321: the reply of send_product_detail to the query result d;
\* the detail text is one message (its length stays under the 4000
\* characters of send_long_text)
DetailReply(d, env, chat_id) ==
    IF d.r.exc # "" THEN send(Caught(d.r), env, chat_id, Msg("detail_error"))
    ELSE IF d.rows = <<>> THEN send(d.r, env, chat_id, Msg("product_not_found"))
    ELSE send(d.r, env, chat_id, [Msg("detail") EXCEPT !.rows = d.rows])

\* send_product_detail(chat_id, pid)
send_product_detail(r, env, chat_id, pid) ==
    DetailReply(
        db_fetch(Invoke(r, "send_product_detail", <<>>, <<>>, pid), env,
                 [DbCall("PRODUCT_DETAIL", <<>>, <<>>) EXCEPT !.pid = pid]),
        env, chat_id)

(***************************************************************************)
(* The webhook handler                                                     *)
(***************************************************************************)
\* an incoming request: the secret header and the update of its body
\*   kind  "bad_json" (no JSON), "not_object" (JSON, but no object),
\*         "callback" (a callback_query), "message" (anything else)
\*   chat, uid  message.chat.id and message.from.id (callback: of
\*         callback_query.message.chat and callback_query.from); 0: absent
Req(kind) ==
    [kind |-> kind, secret |-> WEBHOOK_SECRET, chat |-> 0, uid |-> 0,
     text |-> <<>>, data |-> <<>>, hasMessage |-> FALSE]

NoClick ==
    [text |-> "", q |-> <<>>, category |-> <<>>, page |-> 0, last_page |-> 0]

StartsWith(s, prefix) ==
    Len(s) >= Len(prefix) /\ SubSeq(s, 1, Len(prefix)) = prefix

\* str.split(sep, maxsplit)
RECURSIVE SplitMax(_, _, _)
SplitMax(s, sep, maxsplit) ==
    LET at == {i \in 1..Len(s) : s[i] = sep}
    IN  IF maxsplit = 0 \/ at = {} THEN <<s>>
        ELSE <<SubSeq(s, 1, Least(at) - 1)>>
             \o SplitMax(SubSeq(s, Least(at) + 1, Len(s)), sep, maxsplit - 1)

\* the text after the optional leading slash of ^/?
AfterSlash(text) == IF Len(text) > 0 /\ text[1] = "/" THEN Tail(text) ELSE text

KwPing == <<"p", "i", "n", "g">>

KwProduk == <<"p", "r", "o", "d", "u", "k">>

KwVaksin == <<"v", "a", "k", "s", "i", "n">>

KwHarga == <<"h", "a", "r", "g", "a">>

KwPack == <<"p", "a", "c", "k">>

\* re.match(r"^/?ping$", text, flags=re.I)
IsPing(text) == Lower(AfterSlash(text)) = KwPing

\* re.match(r"^/?<kw>(?:\s+(.*))?$", text, flags=re.I) and
\* args = (m.group(1) or "").strip()
CommandArgs(text, kw) ==
    LET s == AfterSlash(text)
        a == Len(kw) + 1
        b == RunEnd(s, a, {" "})
    IN  IF ~LitAt(s, 1, kw) THEN [ok |-> FALSE, args |-> <<>>]
        ELSE IF a = Len(s) + 1 THEN [ok |-> TRUE, args |-> <<>>]
        ELSE IF b > a THEN [ok |-> TRUE, args |-> Strip(SubSeq(s, b, Len(s)))]
        ELSE [ok |-> FALSE, args |-> <<>>]

\* \s+pack\s+(.+)$ at position j of a stripped text
PackTailAt(s, j) ==
    LET c == RunEnd(s, j, {" "})
        d == RunEnd(s, c + Len(KwPack), {" "})
    IN  c > j /\ LitAt(s, c, KwPack) /\ d > c + Len(KwPack) /\ d <= Len(s)

\* re.match(r"^/?harga\s+(.+?)(?:\s+pack\s+(.+))?$", text, flags=re.I) on a
\* stripped text: the name is the shortest text after which a pack clause
\* or the end follows
HargaArgs(text) ==
    LET s == AfterSlash(text)
        a == Len(KwHarga) + 1
        b == RunEnd(s, a, {" "})
        e == Least({j \in (b + 1)..(Len(s) + 1) :
                       j = Len(s) + 1 \/ PackTailAt(s, j)})
        c == RunEnd(s, e, {" "})
    IN  IF LitAt(s, 1, KwHarga) /\ b > a /\ b <= Len(s)
        THEN [ok   |-> TRUE,
              name |-> SubSeq(s, b, e - 1),
              pack |-> IF e = Len(s) + 1 THEN <<>>
                       ELSE SubSeq(s, RunEnd(s, c + Len(KwPack), {" "}), Len(s))]
        ELSE [ok |-> FALSE, name |-> <<>>, pack |-> <<>>]

\* lines 406-408: _, p, q, category = data.split(":", 3) and int(p)
PageCallback(parts, req, env) ==
    IF Len(parts) # 4 \/ ~ParseInt(parts[2]).ok THEN Raise(EmptyRun, "ValueError")
    ELSE edit_message_with_catalog(EmptyRun, env, req.chat,
             ParseInt(parts[2]).val, parts[3], parts[4])

\* lines 409-411: _, pid = data.split(":", 1) and int(pid)
ProductCallback(parts, req, env) ==
    IF ~ParseInt(parts[2]).ok THEN Raise(EmptyRun, "ValueError")
    ELSE send_product_detail(EmptyRun, env, req.chat, ParseInt(parts[2]).val)

\* line 412: the callback is answered unless its handling raised
AnswerAfter(routed, env) ==
    IF routed.exc # "" THEN routed ELSE answer_callback(routed, env)

\* lines 402-413: the callback branch; it reads callback_query.message and
\* callback_query.data, never callback_query.from
CallbackBranch(req, env) ==
    IF ~req.hasMessage THEN Raise(EmptyRun, "KeyError")
    ELSE AnswerAfter(
             IF StartsWith(req.data, TokPage)
             THEN PageCallback(SplitMax(req.data, ":", 3), req, env)
             ELSE IF StartsWith(req.data, TokProduct)
             THEN ProductCallback(SplitMax(req.data, ":", 1), req, env)
             ELSE EmptyRun,
             env)

\* lines 439-441: /produk
ProdukCommand(req, env, a) == send_catalog(EmptyRun, env, req.chat, a.q, a.kat, a.page)

\* lines 447-452: /vaksin
VaksinCommand(req, env, vargs) ==
    send_catalog(EmptyRun, env, req.chat, Strip(ReSub("page", vargs)),
                 VACCINE_CATEGORY, PageOf(_extract_arg("page", vargs)))

\* lines 460-464: the reply of /harga to the rows found
HargaReply(f, req, env) ==
    IF f.r.exc # "" THEN f.r
    ELSE IF f.rows = <<>> THEN send(f.r, env, req.chat, Msg("not_found"))
    ELSE send(f.r, env, req.chat, [Msg("prices") EXCEPT !.rows = f.rows])

\* lines 458-465: /harga
HargaCommand(req, env, name, pack) ==
    HargaReply(find_prices(EmptyRun, env, name, pack, DEFAULT_THRESHOLD), req, env)

\* lines 426-429: the allow-list check
Restricted(uid) == ALLOWED_IDS # {} /\ uid \notin ALLOWED_IDS

\* lines 431-477: the commands, on the stripped text
Command(req, env, text) ==
    IF IsPing(text) THEN send(EmptyRun, env, req.chat, Msg("pong"))
    ELSE IF CommandArgs(text, KwProduk).ok
    THEN ProdukCommand(req, env, _parse_produk_args(CommandArgs(text, KwProduk).args))
    ELSE IF CommandArgs(text, KwVaksin).ok
    THEN VaksinCommand(req, env, CommandArgs(text, KwVaksin).args)
    ELSE IF HargaArgs(text).ok
    THEN HargaCommand(req, env, HargaArgs(text).name, HargaArgs(text).pack)
    ELSE send(EmptyRun, env, req.chat, Msg("help"))

\* lines 416-429: the message branch up to the allow-list check
MessageBranch(req, env) ==
    IF req.chat = 0 \/ Strip(req.text) = <<>> THEN EmptyRun
    ELSE IF Restricted(req.uid)
    THEN send(EmptyRun, env, req.chat, Msg("restricted"))
    ELSE Command(req, env, Strip(req.text))

\* lines 400-477: the try block
TryBlock(req, env) ==
    IF req.kind = "not_object" THEN Raise(EmptyRun, "AttributeError")
    ELSE IF req.kind = "callback" THEN CallbackBranch(req, env)
    ELSE MessageBranch(req, env)

\* line 483: chat_id = update.get("message", {}).get("chat", {}).get("id")
ExceptChat(req) == IF req.kind = "message" THEN req.chat ELSE 0

\* an except clause without the try around its own send
ExceptClause_SendUnguarded(t, req, env) ==
    IF req.kind = "not_object" \/ ExceptChat(req) = 0 THEN Caught(t)
    ELSE send(Caught(t), env, ExceptChat(req), Msg("apology"))

\* lines 479-487: the except clause.  Whatever its own try raises (the
\* update.get of an update that is no object, the send) is passed
ExceptClause(t, req, env) ==
    IF req.kind = "not_object" \/ ExceptChat(req) = 0 THEN Caught(t)
    ELSE Caught(send(Caught(t), env, ExceptChat(req), Msg("apology")))

\* what the request led to: response is "ok" for {"ok": True} and "error"
\* when an exception leaves the handler; caught is the exception that
\* reached the except clause
Respond(r, req, caught) ==
    [req |-> req, core |-> r.core, db |-> r.db, tg |-> r.tg, caught |-> caught,
     response |-> IF r.exc = "" THEN "ok" ELSE "error"]

\* lines 400 and 479-488: the try block's result, or the except clause
AfterTry(t, req, env) ==
    IF t.exc = "" THEN Respond(t, req, "")
    ELSE Respond(ExceptClause(t, req, env), req, t.exc)

\* telegram_webhook(request)
telegram_webhook(req, env) ==
    IF WEBHOOK_SECRET # "" /\ req.secret # WEBHOOK_SECRET
    THEN Respond(EmptyRun, req, "")
    ELSE IF req.kind = "bad_json" THEN Respond(EmptyRun, req, "")
    ELSE AfterTry(TryBlock(req, env), req, env)

(***************************************************************************)
(* The requests of the model                                               *)
(***************************************************************************)
\* the largest page number a command asks for
MaxPageArg == 4

Users == {1, 2}

\* the chats that write to the bot
Chats == {10}

Sp == <<" ">>

\* the texts joined by single spaces, empty ones left out
RECURSIVE JoinSp(_)
JoinSp(parts) ==
    IF parts = <<>> THEN <<>>
    ELSE IF parts[1] = <<>> THEN JoinSp(Tail(parts))
    ELSE IF JoinSp(Tail(parts)) = <<>> THEN parts[1]
    ELSE parts[1] \o Sp \o JoinSp(Tail(parts))

TxtTa == <<"t", "a">>

TxtColon == <<"t", ":", "b">>

TxtVit == <<"v", "i", "t">>

TxtS1 == <<"s", "1">>

TxtZz == <<"z", "z">>

TxtOne == <<"1">>

PageMarkers == {<<>>} \cup {KwPage \o Sp \o IntStr(n) : n \in 0..MaxPageArg}

KategoriMarkers ==
    {<<>>,
     KwKategori \o Sp \o VACCINE_CATEGORY,
     KwKategori \o Sp \o <<"\"">> \o CatColon \o <<"\"">>}

ProdukTexts ==
    {JoinSp(<<<<"/">> \o KwProduk, q, k, pg>>) :
        q \in {<<>>, TxtTa, TxtColon}, k \in KategoriMarkers, pg \in PageMarkers}

VaksinTexts ==
    {JoinSp(<<<<"/">> \o KwVaksin, q, pg>>) : q \in {<<>>, TxtTa}, pg \in PageMarkers}

HargaTexts ==
    {JoinSp(<<<<"/">> \o KwHarga, n, pk>>) :
        n \in {TxtVit, TxtS1, TxtZz}, pk \in {<<>>, KwPack \o Sp \o TxtOne}}

OtherTexts == {<<"/">> \o KwPing, <<"h", "i">>, <<>>}

\* callback data no button of the bot carries
CraftedData ==
    {NavToken(0, <<>>, <<>>), NavToken(-1, <<>>, <<>>), NavToken(9, <<>>, <<>>),
     NavToken(2, TxtTa, VACCINE_CATEGORY),
     TokPage \o <<"x", ":", ":">>, TokPage \o <<"1">>,
     ProductToken(1), ProductToken(99), TokProduct \o <<"x">>, TokNoop, <<>>}

\* the rankings the similarity query may return
Rankings == {<<>>, <<2>>, <<3, 1>>, <<6, 5, 4, 3, 2, 1>>}

\* the Telegram calls that raise, by their order in the request: a request
\* makes at most two calls before the apology, so these are all the cases
TgFaults == {{}, {1}, {2}, {1, 2}, {2, 3}}

\* a callback makes at most two Telegram calls, and none for an apology
CallbackTgFaults == {{}, {1}, {2}}

ListFaults == {{}, {"COUNT_PRODUCTS"}, {"LIST_PRODUCTS"}}

LookupFaults == SUBSET {"LOOKUP_FUZZY", "LOOKUP_SUBSTRING"}

CallbackFaults == ListFaults \cup {{"PRODUCT_DETAIL"}}

Env(dbFail, tgFail, ranked) == [dbFail |-> dbFail, tgFail |-> tgFail, ranked |-> ranked]

NoEnv == Env({}, {}, <<>>)

Message(uid, chat, text) ==
    [Req("message") EXCEPT !.uid = uid, !.chat = chat, !.text = text]

Callback(uid, chat, data) ==
    [Req("callback") EXCEPT !.uid = uid, !.chat = chat, !.data = data,
                            !.hasMessage = chat # 0]

NoRequest == [req |-> Req("none"), env |-> NoEnv, clicked |-> NoClick]

IdleRun == Respond(EmptyRun, Req("none"), "")

NotParsed == [q |-> <<>>, kat |-> <<>>, page |-> 0]

\* no request is waiting and the last one is forgotten
Idle == inbox.req.kind = "none" /\ run.req.kind = "none"

\* Telegram posts a request to the webhook
Post(req, env, clicked) ==
    /\ inbox' = [req |-> req, env |-> env, clicked |-> clicked]
    /\ run' = IdleRun
    /\ UNCHANGED <<ALLOWED_IDS, WEBHOOK_SECRET, table, args, parsed>>

(***************************************************************************)
(* Actions                                                                 *)
(***************************************************************************)
\* a request whose secret header is not the configured one
ReceiveForged ==
    /\ Idle
    /\ WEBHOOK_SECRET # ""
    /\ \E uid \in Users, chat \in Chats,
          text \in {<<"/">> \o KwPing, <<"/">> \o KwProduk} :
          Post([Message(uid, chat, text) EXCEPT !.secret = "forged"], NoEnv, NoClick)

\* a body that is no JSON, or JSON that is no object
ReceiveMalformed ==
    /\ Idle
    /\ \E kind \in {"bad_json", "not_object"} : Post(Req(kind), NoEnv, NoClick)

\* /ping, a text that is no command, an empty text, an update without chat
ReceiveOther ==
    /\ Idle
    /\ \E uid \in Users, chat \in {0} \cup Chats, text \in OtherTexts, tg \in TgFaults :
          Post(Message(uid, chat, text), Env({}, tg, <<>>), NoClick)

ReceiveProduk ==
    /\ Idle
    /\ \E uid \in Users, chat \in Chats, text \in ProdukTexts, db \in ListFaults, tg \in TgFaults :
          Post(Message(uid, chat, text), Env(db, tg, <<>>), NoClick)

ReceiveVaksin ==
    /\ Idle
    /\ \E uid \in Users, chat \in Chats, text \in VaksinTexts, db \in ListFaults, tg \in TgFaults :
          Post(Message(uid, chat, text), Env(db, tg, <<>>), NoClick)

ReceiveHarga ==
    /\ Idle
    /\ \E uid \in Users, chat \in Chats, text \in HargaTexts, db \in LookupFaults,
          ranked \in Rankings, tg \in TgFaults :
          Post(Message(uid, chat, text), Env(db, tg, ranked), NoClick)

\* a callback query whose data the sender made up
ReceiveCallback ==
    /\ Idle
    /\ \E uid \in Users, chat \in {0} \cup Chats, data \in CraftedData,
          db \in CallbackFaults, tg \in CallbackTgFaults :
          Post(Callback(uid, chat, data), Env(db, tg, <<>>), NoClick)

\* the listing replies of the last request that reached the chat
Shown == {i \in 1..Len(run.tg) : run.tg[i].msg.kind = "list" /\ run.tg[i].out = "ok"}

\* a user presses a button of the listing the bot has just shown; clicked
\* remembers the button and the listing it belongs to
ClickButton ==
    \E i \in Shown :
        \E b \in 1..Len(run.tg[i].msg.buttons), uid \in Users,
           db \in CallbackFaults, tg \in CallbackTgFaults :
           Post(Callback(uid, run.tg[i].chat, run.tg[i].msg.buttons[b].data),
                Env(db, tg, <<>>),
                [text      |-> run.tg[i].msg.buttons[b].text,
                 q         |-> run.tg[i].msg.q,
                 category  |-> run.tg[i].msg.category,
                 page      |-> run.tg[i].msg.page,
                 last_page |-> run.tg[i].msg.last_page])

\* the handler serves the request; inbox keeps what the environment did
\* to it and the button that led to it
Handle ==
    /\ inbox.req.kind # "none"
    /\ run' = telegram_webhook(inbox.req, inbox.env)
    /\ inbox' = [inbox EXCEPT !.req = Req("none")]
    /\ UNCHANGED <<ALLOWED_IDS, WEBHOOK_SECRET, table, args, parsed>>

\* the handler keeps nothing between requests
Forget ==
    /\ run.req.kind # "none"
    /\ run' = IdleRun
    /\ inbox' = NoRequest
    /\ UNCHANGED <<ALLOWED_IDS, WEBHOOK_SECRET, table, args, parsed>>

Init ==
    /\ ALLOWED_IDS \in {{}, {1}}
    /\ WEBHOOK_SECRET \in {"", "s3cret"}
    /\ table \in {Catalog(n) : n \in 0..MaxRows}
    /\ inbox = NoRequest
    /\ run = IdleRun
    /\ args = <<>>
    /\ parsed = NotParsed

Next ==
    \/ ReceiveForged
    \/ ReceiveMalformed
    \/ ReceiveOther
    \/ ReceiveProduk
    \/ ReceiveVaksin
    \/ ReceiveHarga
    \/ ReceiveCallback
    \/ ClickButton
    \/ Handle
    \/ Forget

Spec == Init /\ [][Next]_vars


(***************************************************************************)
(* The parser on its own: Init draws an argument string, ParseArgs applies *)
(* _parse_produk_args to it.  The string is a sequence of pieces: a        *)
(* free-text word, a kategori marker (quoted or not), a page marker.       *)
(***************************************************************************)
\* the longest argument string, in pieces
MaxPieces == 3

Word(v) == [k |-> "word", kw |-> <<>>, v |-> v, n |-> 0, quoted |-> FALSE]

Kategori(kw, v, quoted) == [k |-> "kategori", kw |-> kw, v |-> v, n |-> 0, quoted |-> quoted]

Page(kw, n) == [k |-> "page", kw |-> kw, v |-> <<>>, n |-> n, quoted |-> FALSE]

TxtVita == <<"v", "i", "t", "a">>

TxtB12 == <<"b", "1", "2">>

TxtUnggas == <<"U", "n", "g", "g", "a", "s">>

TxtAlatKes == <<"A", "l", "a", "t", " ", "K", "e", "s">>

Pieces ==
    {Word(TxtVita), Word(TxtB12)}
    \cup {Kategori(kw, v, quoted) :
              kw \in {KwKategori, <<"K">> \o Tail(KwKategori)},
              v \in {TxtUnggas, TxtAlatKes}, quoted \in BOOLEAN}
    \cup {Page(kw, n) : kw \in {KwPage, <<"P", "A", "G", "E">>}, n \in {0, 2, 10}}

\* at most one kategori and one page marker; an unquoted kategori value runs
\* up to the page marker or the end, so no word follows it directly
WellFormed(ps) ==
    /\ Cardinality({i \in 1..Len(ps) : ps[i].k = "kategori"}) <= 1
    /\ Cardinality({i \in 1..Len(ps) : ps[i].k = "page"}) <= 1
    /\ \A i \in 1..(Len(ps) - 1) :
          (ps[i].k = "kategori" /\ ~ps[i].quoted) => ps[i + 1].k = "page"

ParserInputs ==
    {ps \in UNION {[1..n -> Pieces] : n \in 0..MaxPieces} : WellFormed(ps)}

PieceText(p) ==
    CASE p.k = "word" -> p.v
      [] p.k = "kategori" ->
             p.kw \o Sp \o (IF p.quoted THEN <<"\"">> \o p.v \o <<"\"">> ELSE p.v)
      [] p.k = "page" -> p.kw \o Sp \o IntStr(p.n)

\* the texts joined by single spaces, empty ones included
RECURSIVE JoinAll(_)
JoinAll(parts) ==
    IF parts = <<>> THEN <<>>
    ELSE IF Len(parts) = 1 THEN parts[1]
    ELSE parts[1] \o Sp \o JoinAll(Tail(parts))

\* the argument string of the pieces
ArgText(ps) == JoinAll([i \in 1..Len(ps) |-> PieceText(ps[i])])

InitParse ==
    /\ ALLOWED_IDS = {}
    /\ WEBHOOK_SECRET = ""
    /\ table = <<>>
    /\ inbox = NoRequest
    /\ run = IdleRun
    /\ args \in ParserInputs
    /\ parsed = NotParsed

ParseArgs ==
    /\ parsed = NotParsed
    /\ parsed' = _parse_produk_args(ArgText(args))
    /\ UNCHANGED <<ALLOWED_IDS, WEBHOOK_SECRET, table, inbox, run, args>>

NextParse == ParseArgs

SpecParse == InitParse /\ [][NextParse]_vars

(***************************************************************************)
(* What a served request shows                                             *)
(***************************************************************************)
\* the handler has served a request
Done == run.req.kind # "none"

\* the queries of the request that ran the statement sql
DbLog(sql) == {i \in 1..Len(run.db) : run.db[i].call.sql = sql}

\* the core operation of the request, when it is fn
Ran(fn) == Len(run.core) = 1 /\ run.core[1].fn = fn

\* the message of the first Telegram call of the request
Answer == IF run.tg = <<>> THEN Msg("none") ELSE run.tg[1].msg

\* the environment made neither listing query fail
StoreAnswered == inbox.env.dbFail \cap {"COUNT_PRODUCTS", "LIST_PRODUCTS"} = {}

\* ceil(a / b), by its definition
CeilDiv(a, b) == CHOOSE k \in 0..a : k * b >= a /\ (k = 0 \/ (k - 1) * b < a)

(***************************************************************************)
(* Price lookup                                                            *)
(***************************************************************************)
\* C1: whenever the Tier 1 similarity query returns at least one row, the
\* Tier 2 substring query is never issued and the rows find_prices returns
\* (the rows of the /harga reply) are the Tier 1 rows in Tier 1 order.
C1_TierOneRowsTakePriority ==
    \A i \in DbLog("LOOKUP_FUZZY") :
        (run.db[i].out = "ok" /\ run.db[i].rows # <<>>) =>
            /\ Ran("find_prices")
            /\ DbLog("LOOKUP_SUBSTRING") = {}
            /\ Answer.kind = "prices"
            /\ Answer.rows = run.db[i].rows

\* Tier 1 returned rows 3 and 1, in the order of similarity
C1_Witness ==
    /\ Ran("find_prices")
    /\ \E i \in DbLog("LOOKUP_FUZZY") : run.db[i].rows = <<3, 1>>
    /\ Answer.rows = <<3, 1>>

\* C2: whenever the Tier 1 similarity query returns zero rows or raises, the
\* Tier 2 substring query is issued exactly once, after it, with the same
\* trimmed name and pack text; when it answers, its rows are the rows
\* find_prices returns, unchanged; the Tier 1 error never reaches the
\* handler's except clause.
C2_TierTwoFallback ==
    \A i \in DbLog("LOOKUP_FUZZY") :
        (run.db[i].out = "raise" \/ run.db[i].rows = <<>>) =>
            /\ Ran("find_prices")
            /\ Cardinality(DbLog("LOOKUP_SUBSTRING")) = 1
            /\ \A j \in DbLog("LOOKUP_SUBSTRING") :
                  /\ j > i
                  /\ run.db[j].call.q = Strip(run.core[1].q)
                  /\ run.db[j].call.q = run.db[i].call.q
                  /\ run.db[j].call.filt = Strip(run.core[1].filt)
                  /\ run.db[j].call.filt = run.db[i].call.filt
                  /\ run.db[j].out = "ok" =>
                        /\ Answer.rows = run.db[j].rows
                        /\ Answer.kind = IF run.db[j].rows = <<>>
                                         THEN "not_found" ELSE "prices"
            /\ run.caught # "LOOKUP_FUZZY"

\* Tier 1 raised, Tier 2 found rows and the reply shows them
C2_Witness ==
    /\ Ran("find_prices")
    /\ \E i \in DbLog("LOOKUP_FUZZY") : run.db[i].out = "raise"
    /\ \E j \in DbLog("LOOKUP_SUBSTRING") :
          Len(run.db[j].rows) >= 2 /\ Answer.rows = run.db[j].rows
    /\ run.caught = ""

\* C7: if the Tier 2 substring query fails, find_prices yields zero rows and
\* /harga sends the ordinary "not found" reply: no exception reaches the
\* except clause and no apology is sent.
C7_TierTwoFailureIsNotFound ==
    \A j \in DbLog("LOOKUP_SUBSTRING") :
        run.db[j].out = "raise" =>
            /\ run.caught = ""
            /\ Len(run.tg) = 1
            /\ Answer.kind = "not_found"

(***************************************************************************)
(* Access control                                                          *)
(***************************************************************************)
\* C3: when the allow-list is non-empty, no core operation is invoked for
\* a caller whose Telegram id is not in it, callback queries included.
C3_NoCoreForStrangers ==
    (Done /\ ALLOWED_IDS # {} /\ run.req.uid \notin ALLOWED_IDS) => run.core = <<>>

(***************************************************************************)
(* Pagination                                                              *)
(***************************************************************************)
\* items (p-1)*S+1 .. min(p*S, T) of the sorted match set m
PageItems(m, p) == SubSeq(m, (p - 1) * PAGE_SIZE + 1, Min(p * PAGE_SIZE, Len(m)))

\* C4: for a listing with T matching rows that the store answers, the rows
\* of page p >= 1 are items (p-1)*S+1 .. min(p*S, T) of the sorted match
\* set, last_page is max(1, ceil(T/S)), and a page p > last_page returns
\* zero rows and is rendered as "no results", no query having raised.
C4_PageSlice ==
    (Ran("list_products") /\ run.core[1].n >= 1 /\ StoreAnswered) =>
        /\ Len(run.db) = 2
        /\ run.db[1].out = "ok" /\ run.db[2].out = "ok"
        /\ run.db[1].rows = <<Len(ListMatches(run.core[1].q, run.core[1].filt))>>
        /\ run.db[2].rows = PageItems(ListMatches(run.core[1].q, run.core[1].filt),
                                      run.core[1].n)
        /\ run.core[1].n > Max(1, CeilDiv(run.db[1].rows[1], PAGE_SIZE)) =>
              /\ run.db[2].rows = <<>>
              /\ Answer.kind = "no_results"
              /\ run.caught \in {"", "notifier"}
        /\ run.db[2].rows # <<>> =>
              /\ Answer.kind = "list"
              /\ Answer.rows = run.db[2].rows
              /\ Answer.start = (run.core[1].n - 1) * PAGE_SIZE + 1
              /\ Answer.page = run.core[1].n
              /\ Answer.last_page = Max(1, CeilDiv(run.db[1].rows[1], PAGE_SIZE))

\* T = 12, S = 5: page 3 holds items 11-12 and last_page is 3
C4_Witness ==
    /\ Ran("list_products") /\ run.core[1].n = 3 /\ StoreAnswered
    /\ run.db[1].rows = <<12>>
    /\ Len(Answer.rows) = 2
    /\ Answer.start = 11
    /\ Answer.last_page = 3

\* the page numbers the request asks for: the page field of a navigation
\* token, the page marker of /produk and /vaksin
PageAsked(req) ==
    IF req.kind = "callback"
    THEN IF /\ StartsWith(req.data, TokPage)
            /\ Len(SplitMax(req.data, ":", 3)) = 4
            /\ ParseInt(SplitMax(req.data, ":", 3)[2]).ok
         THEN {ParseInt(SplitMax(req.data, ":", 3)[2]).val}
         ELSE {}
    ELSE IF /\ req.kind = "message"
            /\ CommandArgs(req.text, KwProduk).ok \/ CommandArgs(req.text, KwVaksin).ok
            /\ ReSearch("page", req.text).ok
    THEN {ParseInt(SubSeq(req.text, ReSearch("page", req.text).g1,
                          ReSearch("page", req.text).g2)).val}
    ELSE {}

\* the same request, asking for page n
WithPage(req, n) ==
    IF req.kind = "callback"
    THEN [req EXCEPT !.data = NavToken(n, SplitMax(req.data, ":", 3)[3],
                                       SplitMax(req.data, ":", 3)[4])]
    ELSE [req EXCEPT !.text = SubSeq(req.text, 1, ReSearch("page", req.text).g1 - 1)
                              \o IntStr(n)
                              \o SubSeq(req.text, ReSearch("page", req.text).g2 + 1,
                                        Len(req.text))]

\* C5: a listing request for page <= 0 behaves exactly as the request for
\* page 1: the Telegram calls it makes (rows, numbering, buttons) are those
\* of the same request asking for page 1, in the command text and in the
\* page field of a navigation token.
C5_NonPositivePageIsPageOne ==
    \A p \in PageAsked(run.req) :
        p <= 0 => run.tg = telegram_webhook(WithPage(run.req, 1), inbox.env).tg

\* q holds no colon
NoColon(q) == \A i \in 1..Len(q) : q[i] # ":"

\* lines 406-408: the triple the callback branch reads from a token
DecodeToken(data) ==
    [page     |-> ParseInt(SplitMax(data, ":", 3)[2]).val,
     q        |-> SplitMax(data, ":", 3)[3],
     category |-> SplitMax(data, ":", 3)[4]]

\* the page a Prev or Next button of page p leads to
Target(text, p) == IF text = "Prev" THEN p - 1 ELSE p + 1

\* the navigation buttons of a listing message
NavOf(msg) == {b \in 1..Len(msg.buttons) : msg.buttons[b].text \in {"Prev", "Next"}}

\* C10: over a fixed catalog, for a listing whose q holds no ':', Prev is
\* emitted only when page > 1 and Next only when page < last_page, decoding
\* an emitted token returns the triple that was encoded, and a press of Prev
\* or Next re-runs the listing with the same q, the same category and a page
\* in 1..last_page, which shows a listing, never "no results", when the
\* store answers.
C10_NavigationRoundTrip ==
    /\ \A i \in 1..Len(run.tg) :
          (run.tg[i].msg.kind = "list" /\ NoColon(run.tg[i].msg.q)) =>
              \A b \in NavOf(run.tg[i].msg) :
                  /\ run.tg[i].msg.buttons[b].text = "Prev" => run.tg[i].msg.page > 1
                  /\ run.tg[i].msg.buttons[b].text = "Next" =>
                         run.tg[i].msg.page < run.tg[i].msg.last_page
                  /\ DecodeToken(run.tg[i].msg.buttons[b].data) =
                         [page     |-> Target(run.tg[i].msg.buttons[b].text,
                                              run.tg[i].msg.page),
                          q        |-> run.tg[i].msg.q,
                          category |-> run.tg[i].msg.category]
    /\ (Done /\ inbox.clicked.text \in {"Prev", "Next"} /\ NoColon(inbox.clicked.q)) =>
          /\ Ran("list_products")
          /\ run.core[1].q = inbox.clicked.q
          /\ run.core[1].filt = inbox.clicked.category
          /\ run.core[1].n = Target(inbox.clicked.text, inbox.clicked.page)
          /\ run.core[1].n \in 1..inbox.clicked.last_page
          /\ StoreAnswered =>
                /\ Answer.kind = "list"
                /\ Answer.q = inbox.clicked.q
                /\ Answer.category = inbox.clicked.category
                /\ Answer.page = run.core[1].n
                /\ Answer.last_page = inbox.clicked.last_page

\* Next pressed on page 1 of a category that holds a colon: page 2 is shown
C10_Witness ==
    /\ Done
    /\ inbox.clicked.text = "Next"
    /\ inbox.clicked.category = CatColon
    /\ inbox.clicked.page = 1
    /\ Answer.kind = "list"
    /\ Answer.page = 2
    /\ Answer.category = CatColon

(***************************************************************************)
(* The handler's outcome                                                   *)
(***************************************************************************)
\* C8: every invocation of the handler returns {"ok": True}: on a secret
\* mismatch, an unparsable body, any callback data, any command, and any
\* exception of the core, the store or the notifier, the apology's own
\* failure included.
C8_AlwaysAcknowledged == Done => run.response = "ok"

\* the request raised, and so did the apology
C8_Witness ==
    /\ Done
    /\ run.caught # ""
    /\ run.tg # <<>>
    /\ run.tg[Len(run.tg)].msg.kind = "apology"
    /\ run.tg[Len(run.tg)].out = "raise"
    /\ run.response = "ok"

\* C9: whenever handling an update raises and the update identifies the
\* originating chat, the apology is sent to that chat, for callback queries
\* as for messages.
C9_ApologyReachesChat ==
    (Done /\ run.caught # "" /\ run.req.chat # 0) =>
        \E i \in 1..Len(run.tg) :
            run.tg[i].msg.kind = "apology" /\ run.tg[i].chat = run.req.chat

(***************************************************************************)
(* The parser                                                              *)
(***************************************************************************)
\* what the pieces say: the category value, max(1, N), and the words left
\* once the markers are taken out
Expected(ps) ==
    [q    |-> Strip(JoinAll([i \in 1..Len(ps) |->
                  IF ps[i].k = "word" THEN ps[i].v ELSE <<>>])),
     kat  |-> IF \E i \in 1..Len(ps) : ps[i].k = "kategori"
              THEN ps[CHOOSE i \in 1..Len(ps) : ps[i].k = "kategori"].v
              ELSE <<>>,
     page |-> IF \E i \in 1..Len(ps) : ps[i].k = "page"
              THEN Max(1, ps[CHOOSE i \in 1..Len(ps) : ps[i].k = "page"].n)
              ELSE 1]

\* C6: for every argument string of words, at most one kategori marker and
\* at most one page marker, _parse_produk_args returns the category value
\* verbatim, page = max(1, N) or 1, and as query the trimmed text left once
\* the markers are removed, in whichever order the markers come and with
\* free text before or after a quoted kategori value.
C6_ParserKeepsTheRest == parsed # NotParsed => parsed = Expected(args)

=============================================================================
